---- MODULE Spec2Model ----
(***************************************************************************)
(* Scheduling policies of BPO_2025: the admission-wave planner (or.py),    *)
(* the contextual-bandit staffing planner (rl.py) and the fixed-schedule   *)
(* replay adapter with its GA/SA pipeline (GASA.py).                       *)
(*                                                                         *)
(* Simulation times are real numbers in the code.  The model counts time   *)
(* in ticks, TicksPerHour ticks to the hour, so that times between two     *)
(* full hours exist.  Admission slots of or.py are whole hours (Python    *)
(* ints) and are kept in hours.                                            *)
(***************************************************************************)
EXTENDS Integers, Naturals, Sequences, FiniteSets, TLC

(* ---------------------------------------------------------------------- *)
(* Bounds of the model                                                     *)
(* ---------------------------------------------------------------------- *)
TicksPerHour == 2
(* plan calls on one ORPlanner *)
MaxCalls == 2
(* the largest to_plan and to_replan handed to ORPlanner.plan *)
MaxPlan == 200
MaxReplan == 7
(* schedule calls on one ORPlanner *)
MaxORSched == 3
(* _split_quota: the largest total and the longest share vector tried *)
MaxTotal == 100
MaxWaves == 3
(* RLSubmissionPlanner: schedule calls at the 18th hour, and report calls *)
MaxSched == 3
MaxReports == 2
\* the largest backlog the engine starts plan with
MaxBacklog == 20
(* GASA.py: the cases of case_ids *)
NumCases == 2

(* ---------------------------------------------------------------------- *)
(* IEEE-754 binary64 arithmetic, as far as _split_quota needs it.          *)
(* A double is 0 or [m |-> 53 bits, most significant first and equal to 1, *)
(* e |-> the exponent of the last bit]: its value is m * 2^e.              *)
(* ---------------------------------------------------------------------- *)
MantBits == 53

(* Op applied to the value of v.  TLC evaluates v once here; an operator
   argument or a LET definition it may evaluate again at every use. *)
Bind(v, Op(_)) == CHOOSE r \in {Op(x) : x \in {v}} : TRUE

(* the sequence f as a tuple of values *)
Tuple(f) == f \o <<>>

Zeros(n) == Tuple([i \in 1..n |-> 0])

HasOne(b) == \E i \in 1..Len(b) : b[i] = 1

(* b without its leading zeros *)
StripZeros(b) ==
    Bind(b, LAMBDA v :
    IF HasOne(v)
    THEN SubSeq(v, CHOOSE i \in 1..Len(v) : v[i] = 1 /\ \A j \in 1..(i - 1) : v[j] = 0,
                Len(v))
    ELSE <<>>)

RECURSIVE BitsValue(_, _)
(* the number the first n bits of b spell *)
BitsValue(b, n) == IF n = 0 THEN 0 ELSE 2 * BitsValue(b, n - 1) + b[n]

BitsToInt(b) == Bind(b, LAMBDA v : BitsValue(v, Len(v)))

(* b + 1 on a bit string, one bit longer when every bit was 1 *)
IncBits(b) ==
    Bind(b, LAMBDA v :
    IF \A i \in 1..Len(v) : v[i] = 1 THEN <<1>> \o Zeros(Len(v))
    ELSE Bind(CHOOSE i \in 1..Len(v) : v[i] = 0 /\ \A j \in (i + 1)..Len(v) : v[j] = 1,
              LAMBDA z :
              Tuple([i \in 1..Len(v) |-> IF i < z THEN v[i] ELSE IF i = z THEN 1 ELSE 0])))

FZero == [m |-> <<>>, e |-> 0]

(* Round the positive number bits * 2^e (sticky: a non-zero rest below the
   last bit) to 53 bits, to nearest, ties to even. *)
RoundNearestEven(bits, e, sticky) ==
    Bind(StripZeros(bits), LAMBDA s :
    LET L == Len(s)
    IN  IF L = 0 THEN FZero
        ELSE IF L <= MantBits
             THEN [m |-> s \o Zeros(MantBits - L), e |-> e - (MantBits - L)]
        ELSE LET keep  == SubSeq(s, 1, MantBits)
                 guard == s[MantBits + 1]
                 rest  == sticky \/ HasOne(SubSeq(s, MantBits + 2, L))
                 up    == guard = 1 /\ (rest \/ keep[MantBits] = 1)
                 r     == IF up THEN IncBits(keep) ELSE keep
             IN  IF Len(r) > MantBits
                 THEN [m |-> SubSeq(r, 1, MantBits), e |-> e + (L - MantBits) + 1]
                 ELSE [m |-> r, e |-> e + (L - MantBits)])

ChunkBits == 15
ChunkBase == 2 ^ ChunkBits

(* the n binary digits of v, 0 <= v < 2^n *)
IntToBits(v, n) == Tuple([i \in 1..n |-> (v \div (2 ^ (n - i))) % 2])

RECURSIVE DivChunks(_, _, _, _)
(* acc, then the next n * ChunkBits binary digits of r/d after the point, for
   0 <= r < d, and the remainder left: long division, ChunkBits digits a step *)
DivChunks(r, d, n, acc) ==
    IF n = 0 THEN [bits |-> acc, rem |-> r]
    ELSE Bind(<<(r * ChunkBase) % d, acc \o IntToBits((r * ChunkBase) \div d, ChunkBits)>>,
              LAMBDA x : DivChunks(x[1], d, n - 1, x[2]))

DivSteps == 5

(* The double a decimal literal p/100 denotes (0 <= p <= 100), as Python
   reads 0.36: the nearest double. *)
DecimalToDouble(p) ==
    Bind(DivChunks(p % 100, 100, DivSteps, <<p \div 100>>),
         LAMBDA q : RoundNearestEven(q.bits, -(DivSteps * ChunkBits), q.rem # 0))

RECURSIVE MulChunks(_, _, _, _)
(* b * k + carry for a bit string b (most significant first) whose length is
   a multiple of ChunkBits and 0 <= k < ChunkBase; acc holds the digits done *)
MulChunks(b, k, carry, acc) ==
    IF b = <<>> THEN IntToBits(carry, ChunkBits + 1) \o acc
    ELSE Bind(BitsToInt(SubSeq(b, Len(b) - ChunkBits + 1, Len(b))) * k + carry,
              LAMBDA v :
              Bind(<<SubSeq(b, 1, Len(b) - ChunkBits),
                     IntToBits(v % ChunkBase, ChunkBits) \o acc>>,
                   LAMBDA x : MulChunks(x[1], k, v \div ChunkBase, x[2])))

MulBits(b, k) ==
    Bind(b, LAMBDA v :
    Bind(Zeros((ChunkBits - (Len(v) % ChunkBits)) % ChunkBits) \o v,
         LAMBDA padded : MulChunks(padded, k, 0, <<>>)))

(* f * total for a double f and a Python int total >= 0: the exact product,
   rounded once *)
FMulInt(f, total) ==
    Bind(f, LAMBDA x :
    IF x.m = <<>> \/ total = 0 THEN FZero
    ELSE RoundNearestEven(MulBits(x.m, total), x.e, FALSE))

(* int(x) of a double x >= 0: truncation *)
FInt(f) ==
    Bind(f, LAMBDA x :
    IF x.m = <<>> THEN 0
    ELSE IF x.e >= 0 THEN BitsToInt(x.m \o Zeros(x.e))
    ELSE IF -x.e >= MantBits THEN 0
    ELSE BitsToInt(SubSeq(x.m, 1, MantBits + x.e)))

FracDigits == 64

(* x - int(x) of a double x >= 0 (exact in binary64), as its FracDigits
   binary digits after the point *)
FFrac(f) ==
    Bind(f, LAMBDA x :
    IF x.m = <<>> \/ x.e >= 0 THEN Zeros(FracDigits)
    ELSE Bind(IF -x.e >= MantBits THEN Zeros(-x.e - MantBits) \o x.m
              ELSE SubSeq(x.m, MantBits + x.e + 1, MantBits),
              LAMBDA d : d \o Zeros(FracDigits - Len(d))))

(* a < b for two bit strings of one length *)
BitsLess(a, b) == \E i \in 1..Len(a) : /\ a[i] < b[i]
                                       /\ \A j \in 1..(i - 1) : a[j] = b[j]

RECURSIVE SumSeq(_)
SumSeq(s) == IF s = <<>> THEN 0 ELSE Head(s) + SumSeq(Tail(s))

(* ---------------------------------------------------------------------- *)
(* ORPlanner._split_quota                                                  *)
(* fractions: a sequence of decimal shares in hundredths                   *)
(* ---------------------------------------------------------------------- *)
SplitRaw(total, fractions) ==
    Tuple([i \in 1..Len(fractions) |-> FMulInt(DecimalToDouble(fractions[i]), total)])

(* _split_quota that stops after the truncation of line 60 *)
SplitQuotaTruncated(total, fractions) ==
    Bind(SplitRaw(total, fractions), LAMBDA raw :
         Tuple([i \in 1..Len(raw) |-> FInt(raw[i])]))

SplitQuota(total, fractions) ==
    Bind(SplitRaw(total, fractions), LAMBDA raw :
    Bind(Tuple([i \in 1..Len(raw) |-> FInt(raw[i])]), LAMBDA ints :
    Bind(Tuple([i \in 1..Len(raw) |-> FFrac(raw[i])]), LAMBDA key :
    LET n        == Len(raw)
        leftover == total - SumSeq(ints)
        \* sorted(range(n), key = raw[i] - ints[i], reverse = True) is stable:
        \* the place of i in the order is the number of indices before it
        place(i) == Cardinality({j \in 1..n : \/ BitsLess(key[i], key[j])
                                              \/ (key[j] = key[i] /\ j < i)})
    IN  IF leftover > 0
        THEN Tuple([i \in 1..n |-> IF place(i) < leftover THEN ints[i] + 1 ELSE ints[i]])
        ELSE ints)))

(* ---------------------------------------------------------------------- *)
(* or.py: resource and time model                                          *)
(* ---------------------------------------------------------------------- *)
ResourceType == {"OR", "A_BED", "B_BED", "INTAKE", "ER_PRACTITIONER"}

WEEKLY_CAP == [d \in 1..7 |-> [r \in ResourceType |->
                 CASE r = "OR" -> 5
                   [] r = "A_BED" -> 30
                   [] r = "B_BED" -> 40
                   [] r = "INTAKE" -> 4
                   [] r = "ER_PRACTITIONER" -> 9]]

(* a table passed to the constructor: thinner staffing at the week's end *)
WeekendCap == [d \in 1..7 |-> [r \in ResourceType |->
                 IF d <= 5 THEN WEEKLY_CAP[d][r]
                 ELSE CASE r = "OR" -> 3
                        [] r = "A_BED" -> 20
                        [] r = "B_BED" -> 20
                        [] r = "INTAKE" -> 2
                        [] r = "ER_PRACTITIONER" -> 5]]

CapTables == {WEEKLY_CAP, WeekendCap}

Min(a, b) == IF a <= b THEN a ELSE b
Max(a, b) == IF a >= b THEN a ELSE b

(* t in ticks; the result is a whole hour, as the Python int is *)
next_8am_at_or_after(t) ==
    LET hod  == (t % (24 * TicksPerHour)) \div TicksPerHour   \* int(t % 24)
        base == (t - hod * TicksPerHour) \div TicksPerHour    \* int(t - hod)
    IN  IF hod <= 8 THEN base + 8 ELSE base + 32

(* t in hours *)
dow_1_to_7(t) == ((t \div 24) % 7) + 1

daily_quota(cap, d) ==
    LET i    == cap[d]["INTAKE"]
        er   == cap[d]["ER_PRACTITIONER"]
        beds == cap[d]["A_BED"] + cap[d]["B_BED"]
        q    == Min(Min(14 * i, 6 * er), beds)
    IN  Max(48, Min(q, 64))

waves == <<0, 2, 4, 6, 8, 12>>
wave_frac == <<36, 22, 16, 12, 8, 6>>

(* lines 89-104 and 144-151: the day's quota after the backlog boost and the
   floor/ceiling band *)
QuotaDay(cap, d, backlog, days_since_epoch) ==
    LET quota_day == daily_quota(cap, d)
        boost     == Min(quota_day \div 2, backlog \div 6)
        warm      == days_since_epoch < 14
        floor     == IF warm THEN 56 ELSE 50
        cap_max   == IF warm \/ backlog > 150 THEN 72 ELSE 64
    IN  Min(cap_max, Max(floor, quota_day + boost))

(* lines 97-102 and 147-150: the floor and the ceiling of that quota *)
QuotaBand(backlog, days_since_epoch) ==
    LET warm == days_since_epoch < 14
    IN  [floor   |-> IF warm THEN 56 ELSE 50,
         cap_max |-> IF warm \/ backlog > 150 THEN 72 ELSE 64]

(* what a call keeps of a day it has built slots for: the quota, and the
   backlog and the band it was made with *)
DayInfo(cap, d, backlog, days_since_epoch) ==
    [quota   |-> QuotaDay(cap, d, backlog, days_since_epoch),
     backlog |-> backlog,
     floor   |-> QuotaBand(backlog, days_since_epoch).floor,
     cap_max |-> QuotaBand(backlog, days_since_epoch).cap_max]

EmptyLedger == [k \in {} |-> 0]

UsedGet(used, key) == IF key \in DOMAIN used THEN used[key] ELSE 0

(* line 134 and 163 with the other buckets of the ledger dropped *)
UsedPutAlone(used, key, v) == [k \in {key} |-> v]

UsedPut(used, key, v) ==
    [k \in DOMAIN used \cup {key} |-> IF k = key THEN v ELSE used[k]]

(* lines 116 and 159 without the subtraction of what the ledger holds *)
RoomIgnoringLedger(subq, already) == subq

(* lines 116 and 159: the room left in a slot *)
Room(subq, already) == Max(0, subq - already)

(* line 135 with pending[-1] in place of pending.pop() *)
PoppedLastOnly(pending, k, tslot) ==
    Tuple([j \in 1..k |-> <<pending[Len(pending)], tslot>>])

(* the k cases popped from the end of pending, each paired with tslot *)
Popped(pending, k, tslot) ==
    Tuple([j \in 1..k |-> <<pending[Len(pending) - j + 1], tslot>>])

(* lines 85-118: the six slots of one day of the two-day horizon *)
HorizonSlots(cap, used, base8, day_offset, backlog) ==
    LET day_start == base8 + 24 * day_offset
        d         == dow_1_to_7(day_start)
        w         == day_start \div 168
    IN  Bind(SplitQuota(QuotaDay(cap, d, backlog, base8 \div 24), wave_frac),
             LAMBDA subqs :
             Tuple([idx \in 1..Len(waves) |->
                LET tslot == day_start + waves[idx]
                    key   == <<w, d, tslot % 24>>
                IN  [t |-> tslot, cap |-> Room(subqs[idx], UsedGet(used, key)),
                     key |-> key, subq |-> subqs[idx],
                     day |-> DayInfo(cap, d, backlog, base8 \div 24)]]))

RECURSIVE HorizonFill(_, _, _)
(* lines 121-136: drain pending into the slots, in order *)
HorizonFill(slots, idx, st) ==
    IF idx > Len(slots) \/ st.pending = <<>> THEN st
    ELSE LET s == slots[idx]
             k == Min(s.cap, Len(st.pending))
         IN  IF k <= 0 THEN HorizonFill(slots, idx + 1, st)
             ELSE Bind([pending |-> SubSeq(st.pending, 1, Len(st.pending) - k),
                        out     |-> st.out \o Popped(st.pending, k, s.t),
                        used    |-> UsedPut(st.used, s.key, UsedGet(st.used, s.key) + k),
                        seen    |-> st.seen],
                       LAMBDA nst : HorizonFill(slots, idx + 1, nst))

RECURSIVE RollFill(_, _, _, _, _, _, _)
(* lines 153-163: one day of the rolling horizon *)
RollFill(day_start, d, w, subqs, day, i, st) ==
    IF i > Len(waves) \/ st.pending = <<>> THEN st
    ELSE LET tslot == day_start + waves[i]
             key   == <<w, d, tslot % 24>>
             already == UsedGet(st.used, key)
             cap   == Room(subqs[i], already)
             k     == Min(cap, Len(st.pending))
         IN  Bind([pending |-> SubSeq(st.pending, 1, Len(st.pending) - k),
                   out     |-> st.out \o Popped(st.pending, k, tslot),
                   used    |-> UsedPut(st.used, key, UsedGet(st.used, key) + k),
                   seen    |-> Append(st.seen, [t |-> tslot, cap |-> cap,
                                                key |-> key, subq |-> subqs[i],
                                                day |-> day])],
                  LAMBDA nst : RollFill(day_start, d, w, subqs, day, i + 1, nst))

(* lines 83-136: the two-day horizon *)
Horizon(cap, used, base8, pending, out, replan) ==
    Bind(HorizonSlots(cap, used, base8, 0, Len(pending) + replan)
         \o HorizonSlots(cap, used, base8, 1, Len(pending) + replan),
         LAMBDA slots :
         Bind([pending |-> pending, out |-> out, used |-> used, seen |-> slots],
              LAMBDA st : HorizonFill(slots, 1, st)))

(* lines 141-163: the day at day_offset *)
RollDay(cap, used, base8, day_offset, pending, out, replan, seen) ==
    LET day_start == base8 + 24 * day_offset
        d         == dow_1_to_7(day_start)
        w         == day_start \div 168
        backlog   == Len(pending) + replan
        quota_day == QuotaDay(cap, d, backlog, (base8 \div 24) + day_offset)
    IN  Bind(SplitQuota(quota_day, wave_frac), LAMBDA subqs :
        Bind([pending |-> pending, out |-> out, used |-> used, seen |-> seen],
             LAMBDA st : RollFill(day_start, d, w, subqs,
                                  DayInfo(cap, d, backlog, (base8 \div 24) + day_offset),
                                  1, st)))

(* ---------------------------------------------------------------------- *)
(* rl.py: time helpers.  Times are in ticks; hour 0 is Monday 2018-01-01.  *)
(* ---------------------------------------------------------------------- *)
HourOf(h) == (h \div TicksPerHour) % 24          \* hours_to_dt(h).hour
WeekdayOf(h) == ((h \div TicksPerHour) \div 24) % 7   \* hours_to_dt(h).weekday()

is_weekend(h) == WeekdayOf(h) >= 5

(* lines 37-40 without the timedelta(days = days_ahead) of line 39 *)
next_day_0800_today(h, days_ahead) ==
    Max(h + TicksPerHour, (24 * ((h \div TicksPerHour) \div 24) + 8) * TicksPerHour)

(* lines 37-40 *)
next_day_0800(h, days_ahead) ==
    Max(h + TicksPerHour,
        (24 * (((h \div TicksPerHour) \div 24) + days_ahead) + 8) * TicksPerHour)

(* ---------------------------------------------------------------------- *)
(* rl.py: binary64 with a sign.  The metric accumulators, the reward and    *)
(* the Q-values are Python floats: [neg |-> the sign bit, m, e] with m and  *)
(* e as above, m = <<>> and e = 0 for a zero.                               *)
(* ---------------------------------------------------------------------- *)
Signed(neg, x) == [neg |-> neg, m |-> x.m, e |-> x.e]

(* float(k) for a Python int k of small size *)
FOfInt(k) ==
    Signed(k < 0, RoundNearestEven(IntToBits(IF k < 0 THEN -k ELSE k, 31), 0, FALSE))

(* the literal p/100, 0 <= p <= 100, as Python reads it *)
FOfDecimal(p) == Signed(FALSE, DecimalToDouble(p))

(* -x *)
FNeg(x) == [x EXCEPT !.neg = ~x.neg]

(* b with leading zeros up to the least multiple of ChunkBits that is >= n *)
PadTo(b, n) == Zeros(((n + ChunkBits - 1) \div ChunkBits) * ChunkBits - Len(b)) \o b

RECURSIVE AddChunks(_, _, _, _)
(* a + b + carry for two bit strings of one length, a multiple of ChunkBits *)
AddChunks(a, b, carry, acc) ==
    IF a = <<>> THEN <<carry>> \o acc
    ELSE Bind(BitsToInt(SubSeq(a, Len(a) - ChunkBits + 1, Len(a)))
              + BitsToInt(SubSeq(b, Len(b) - ChunkBits + 1, Len(b))) + carry,
              LAMBDA v :
              Bind(<<SubSeq(a, 1, Len(a) - ChunkBits), SubSeq(b, 1, Len(b) - ChunkBits),
                     IntToBits(v % ChunkBase, ChunkBits) \o acc>>,
                   LAMBDA x : AddChunks(x[1], x[2], v \div ChunkBase, x[3])))

RECURSIVE SubChunks(_, _, _, _)
(* a - b - borrow for two bit strings of one length, a multiple of ChunkBits,
   a >= b *)
SubChunks(a, b, borrow, acc) ==
    IF a = <<>> THEN acc
    ELSE Bind(BitsToInt(SubSeq(a, Len(a) - ChunkBits + 1, Len(a)))
              - BitsToInt(SubSeq(b, Len(b) - ChunkBits + 1, Len(b))) - borrow,
              LAMBDA v :
              Bind(<<SubSeq(a, 1, Len(a) - ChunkBits), SubSeq(b, 1, Len(b) - ChunkBits),
                     IntToBits((v + ChunkBase) % ChunkBase, ChunkBits) \o acc>>,
                   LAMBDA x : SubChunks(x[1], x[2], IF v < 0 THEN 1 ELSE 0, x[3])))

(* a + b and a - b (a >= b) for bit strings of any lengths *)
AddBits(a, b) ==
    Bind(Max(Len(a), Len(b)), LAMBDA n :
         AddChunks(PadTo(a, n), PadTo(b, n), 0, <<>>))

SubBits(a, b) ==
    Bind(Max(Len(a), Len(b)), LAMBDA n :
         SubChunks(PadTo(a, n), PadTo(b, n), 0, <<>>))

RECURSIVE DivBitsChunks(_, _, _, _)
(* acc, then the quotient digits of (r * 2^Len(b) + b) / d, and the remainder
   left, for 0 <= r < d < 2^16 and Len(b) a multiple of ChunkBits *)
DivBitsChunks(b, d, r, acc) ==
    IF b = <<>> THEN [bits |-> acc, rem |-> r]
    ELSE Bind(r * ChunkBase + BitsToInt(SubSeq(b, 1, ChunkBits)), LAMBDA v :
              Bind(<<SubSeq(b, ChunkBits + 1, Len(b)),
                     acc \o IntToBits(v \div d, ChunkBits)>>,
                   LAMBDA x : DivBitsChunks(x[1], d, v % d, x[2])))

(* |x| < |y| for two doubles *)
MagLess(x, y) ==
    IF y.m = <<>> THEN FALSE
    ELSE IF x.m = <<>> THEN TRUE
    ELSE x.e < y.e \/ (x.e = y.e /\ BitsLess(x.m, y.m))

(* x < y as Python compares floats: -0.0 and 0.0 are equal *)
FLess(x, y) ==
    IF x.m = <<>> /\ y.m = <<>> THEN FALSE
    ELSE IF x.neg # y.neg THEN (IF x.m = <<>> THEN ~y.neg ELSE x.neg)
    ELSE IF x.neg THEN MagLess(y, x) ELSE MagLess(x, y)

(* x + y, rounded once; an addend whose last bit lies more than MantBits + 2
   places below the other's is below a quarter of the other's last place *)
FAdd(x, y) ==
    Bind(<<x, y>>, LAMBDA p :
    LET a == p[1]
        b == p[2]
    IN  IF a.m = <<>> /\ b.m = <<>> THEN [neg |-> a.neg /\ b.neg, m |-> <<>>, e |-> 0]
        ELSE IF a.m = <<>> THEN b
        ELSE IF b.m = <<>> THEN a
        ELSE IF a.e - b.e > MantBits + 2 THEN a
        ELSE IF b.e - a.e > MantBits + 2 THEN b
        ELSE Bind(Min(a.e, b.e), LAMBDA e0 :
             Bind(<<a.m \o Zeros(a.e - e0), b.m \o Zeros(b.e - e0)>>, LAMBDA q :
             IF a.neg = b.neg
             THEN Signed(a.neg, RoundNearestEven(AddBits(q[1], q[2]), e0, FALSE))
             ELSE IF MagLess(a, b)
                  THEN Signed(b.neg, RoundNearestEven(SubBits(q[2], q[1]), e0, FALSE))
             ELSE IF MagLess(b, a)
                  THEN Signed(a.neg, RoundNearestEven(SubBits(q[1], q[2]), e0, FALSE))
             ELSE [neg |-> FALSE, m |-> <<>>, e |-> 0])))

(* x - y *)
FSub(x, y) == FAdd(x, FNeg(y))

(* x / n for a double x and a Python int n, 1 <= n < 2^16: the exact
   quotient, rounded once; 67 zeros are put behind the mantissa before it
   is divided *)
FDivInt(x, n) ==
    Bind(x, LAMBDA a :
    IF a.m = <<>> THEN a
    ELSE Bind(DivBitsChunks(a.m \o Zeros(67), n, 0, <<>>), LAMBDA q :
              Signed(a.neg, RoundNearestEven(q.bits, a.e - 67, q.rem # 0))))

(* k * x for a double x and a Python int k >= 0, as the float product
   float(k) * x: exact, rounded once *)
FTimesInt(k, x) == Signed(x.neg, FMulInt([m |-> x.m, e |-> x.e], k))

(* ---------------------------------------------------------------------- *)
(* rl.py: the Q-table                                                      *)
(* ---------------------------------------------------------------------- *)
Actions == <<2, 3, 4, 5>>

(* line 53 and 54: the rows a defaultdict makes on first access *)
QRow0 == [a \in {2, 3, 4, 5} |-> FOfInt(0)]
NRow0 == [a \in {2, 3, 4, 5} |-> 0]

RowOf(table, s, row0) == IF s \in DOMAIN table THEN table[s] ELSE row0

PutRow(table, s, row) == [k \in DOMAIN table \cup {s} |-> IF k = s THEN row ELSE table[k]]

(* lines 92-95: the sum is taken from left to right, each step rounded *)
Reward(m) ==
    FNeg(FAdd(FAdd(FAdd(m.admit_wait, m.in_hosp_wait), m.nerv), FTimesInt(3, m.cost)))

(* line 100 with the step 1/2 in place of 1/n *)
QUpdateWrongStep(q_old, r, n) == FAdd(q_old, FDivInt(FSub(r, q_old), 2))

(* line 100: q_old + (r - q_old) / n *)
QUpdate(q_old, r, n) == FAdd(q_old, FDivInt(FSub(r, q_old), n))

(* line 107 with the last of 2, 3, 4, 5 that has the top value *)
ArgMaxLast(q) ==
    Actions[CHOOSE i \in 1..4 : \A j \in 1..4 :
                /\ ~FLess(q[Actions[i]], q[Actions[j]])
                /\ (j > i => FLess(q[Actions[j]], q[Actions[i]]))]

(* line 107: max(q, key = q.get), the first of 2, 3, 4, 5 with the top value *)
ArgMax(q) ==
    Actions[CHOOSE i \in 1..4 : \A j \in 1..4 :
                /\ ~FLess(q[Actions[i]], q[Actions[j]])
                /\ (j < i => FLess(q[Actions[j]], q[Actions[i]]))]

(* line 119 with the floor of earlier commitments left out *)
NearLevelChosenOnly(existing, last, chosen) == chosen

(* line 119 with self.last_level left out of the max *)
NearLevelNoLast(existing, last, chosen) == Max(existing, chosen)

(* line 119 *)
NearLevel(existing, last, chosen) == Max(existing, Max(last, chosen))

(* line 58: the four accumulators are floats, the overtime flag an int *)
MetricsZero ==
    [admit_wait |-> FOfInt(0), in_hosp_wait |-> FOfInt(0), nerv |-> FOfInt(0),
     cost |-> FOfInt(0), overtime |-> 0]

(* schedule with lines 110-111 left out *)
MetricsKept(m) == m

(* schedule, lines 110-111: every key of self.metrics back to zero *)
MetricsReset(m) == [k \in DOMAIN m |-> IF k = "overtime" THEN 0 ELSE FOfInt(0)]

(* x += k when test holds *)
AddIf(test, x, k) == IF test THEN FAdd(x, k) ELSE x

(* lines 139-157 with else in place of the elif of line 156 *)
MetricsAfterElse(m, label, lifecycle_state) ==
    [admit_wait   |-> AddIf(label /\ lifecycle_state \in {"ACTIVATE_EVENT", "WAITING"},
                            m.admit_wait, FOfInt(1)),
     in_hosp_wait |-> AddIf(lifecycle_state = "ACTIVATE_TASK", m.in_hosp_wait,
                            FOfDecimal(20)),
     nerv         |-> AddIf(lifecycle_state \in {"REPLAN", "RESCHEDULE"}, m.nerv, FOfInt(1)),
     cost         |-> FAdd(AddIf(lifecycle_state = "OVERTIME", m.cost, FOfInt(3)),
                           IF lifecycle_state = "PLANNED_STAFF_LT_1W" THEN FOfInt(2)
                           ELSE FOfInt(1)),
     overtime     |-> IF lifecycle_state = "OVERTIME" THEN 1 ELSE m.overtime]

(* lines 139-157: the metrics after one report; label is TRUE for an element
   whose label holds ADMISSION, INTAKE or REGISTER *)
MetricsAfter(m, label, lifecycle_state) ==
    [admit_wait   |-> AddIf(label /\ lifecycle_state \in {"ACTIVATE_EVENT", "WAITING"},
                            m.admit_wait, FOfInt(1)),
     in_hosp_wait |-> AddIf(lifecycle_state = "ACTIVATE_TASK", m.in_hosp_wait,
                            FOfDecimal(20)),
     nerv         |-> AddIf(lifecycle_state \in {"REPLAN", "RESCHEDULE"}, m.nerv, FOfInt(1)),
     cost         |-> AddIf(lifecycle_state = "PLANNED_STAFF_GE_1W",
                            AddIf(lifecycle_state = "PLANNED_STAFF_LT_1W",
                                  AddIf(lifecycle_state = "OVERTIME", m.cost, FOfInt(3)),
                                  FOfInt(2)),
                            FOfInt(1)),
     overtime     |-> IF lifecycle_state = "OVERTIME" THEN 1 ELSE m.overtime]

(* lines 159-163 *)
ReadyAfter(ready_or, is_or, lifecycle_state) ==
    IF is_or /\ lifecycle_state = "ACTIVATE_TASK" THEN ready_or + 1
    ELSE IF is_or /\ lifecycle_state = "START_TASK" THEN Max(0, ready_or - 1)
    ELSE ready_or

(* lines 85-88 *)
StateOf(now, ready_or, m) ==
    <<WeekdayOf(now), Min(3, ready_or \div 5), IF m.overtime # 0 THEN 1 ELSE 0>>

(* lines 66-78 with no capacity on a weekend: cap1 = 0 and cap2 = cap1 // 2 *)
RLPlanOutWeekdaysOnly(n, now) ==
    LET first == next_day_0800(now, 1)
        slot1 == IF first < now + 24 * TicksPerHour THEN next_day_0800(now, 2) ELSE first
        slot2 == next_day_0800(now, 2)
        cap1  == IF ~is_weekend(now) THEN 6 ELSE 0
        cap2  == cap1 \div 2
    IN  [i \in 1..Min(n, cap1 + cap2) |-> <<i, IF i <= cap1 THEN slot1 ELSE slot2>>]

(* lines 66-78: the list plan returns for the cases 1..n *)
RLPlanOut(n, now) ==
    LET first == next_day_0800(now, 1)
        slot1 == IF first < now + 24 * TicksPerHour THEN next_day_0800(now, 2) ELSE first
        slot2 == next_day_0800(now, 2)
        cap1  == IF ~is_weekend(now) THEN 6 ELSE 2
        cap2  == Max(1, cap1 \div 2)
    IN  [i \in 1..Min(n, cap1 + cap2) |-> <<i, IF i <= cap1 THEN slot1 ELSE slot2>>]

(* ---------------------------------------------------------------------- *)
(* State                                                                   *)
(* ---------------------------------------------------------------------- *)
VARIABLES
    \* ORPlanner
    or_cap,         \* self.cap: weekday -> resource -> level
    or_used,        \* self._used: <<week, weekday, hour>> -> admits
    or_pc,          \* where plan is: "idle", "horizon", "rolling", "return"
    or_now,         \* simulation_time of the latest call, in ticks
    or_n,           \* cases_to_plan is the list <<1, ..., or_n>>
    or_replan,      \* len(cases_to_replan); the cases are or_n+1 .. or_n+or_replan
    or_pending,     \* pending
    or_out,         \* out: <<case, hour>> pairs
    or_base8,       \* base8
    or_day_offset,  \* day_offset of the rolling horizon
    or_seen,        \* the slots this call has built, in order
    or_hist,        \* one record per finished plan call
    or_op,          \* the latest call begun: "init", "plan", "schedule", "report"
    or_sched,       \* history: every triple schedule has returned, in order
    \* a call of _split_quota on its own
    sq_total,       \* total
    sq_fractions,   \* fractions, in hundredths
    sq_ints,        \* the list returned
    sq_pc,          \* "call" before the call, "done" after it
    \* RLSubmissionPlanner
    rl_epsilon,     \* self.epsilon, in hundredths
    rl_Q,           \* self.Q: state -> action -> value; the rows made so far
    rl_N,           \* self.N: state -> action -> visits; the rows made so far
    rl_last_state,  \* self.last_state; <<>> is None
    rl_last_action, \* self.last_action; 0 is None
    rl_metrics,     \* self.metrics
    rl_ready_or,    \* self.ready_or
    rl_last_level,  \* self.last_level[OR]
    rl_scheduled,   \* self._scheduled: time of an OR slot (ticks) -> level
    rl_now,         \* simulation_time of the latest plan or schedule call, in ticks
    rl_op,          \* the latest call: "init", "seed", "plan", "schedule", "report"
    rl_in,          \* <<len(cases_to_plan), len(cases_to_replan)>> of the latest plan
    rl_before,      \* history: self._scheduled as the latest schedule call found it
    rl_out,         \* the list the latest call returned; <<>> for None
    rl_choice,      \* the action selection of the latest hour-18 schedule call
    rl_log,         \* history: every (time, level) schedule has emitted
    rl_day,         \* history: report event -> calls since the last 18:00 schedule
    rl_applied,     \* history: <<state, action>> -> the rewards applied to it: r as
                    \* line 92 computed it, and the reports' exact sum in fifths
    rl_seeded,      \* history: the Q-row put in by hand before the run, or <<>>
    rl_calls,       \* history: schedule calls at the 18th hour so far
    rl_reports,     \* history: report calls so far
    rl_engine,      \* the engine's side of plan: the cases not yet planned, in
                    \* order, and the admission time of each case planned
    \* GASA.py
    fa_pc,          \* "start", "ga", "sa", "loaded", "planned"
    fa_ga,          \* ga_best: case -> hour
    fa_sa,          \* sa_best: case -> hour
    fa_scores,      \* <<ga_score, sa_score>>
    fa_class,       \* the planner class holding sa_best
    fa_now,         \* now of the plan call, in ticks
    fa_to_plan,     \* to_plan of the plan call
    fa_out          \* the list plan returned: <<case, time in ticks>>

orVars == <<or_cap, or_used, or_pc, or_now, or_n, or_replan, or_pending, or_out,
            or_base8, or_day_offset, or_seen, or_hist, or_op, or_sched>>

sqVars == <<sq_total, sq_fractions, sq_ints, sq_pc>>

rlVars == <<rl_epsilon, rl_Q, rl_N, rl_last_state, rl_last_action, rl_metrics,
            rl_ready_or, rl_last_level, rl_scheduled, rl_now, rl_op, rl_in, rl_before,
            rl_out, rl_choice, rl_log, rl_day, rl_applied, rl_seeded, rl_calls, rl_reports,
           rl_engine>>

faVars == <<fa_pc, fa_ga, fa_sa, fa_scores, fa_class, fa_now, fa_to_plan, fa_out>>

vars == <<orVars, sqVars, rlVars, faVars>>

(* ---------------------------------------------------------------------- *)
(* ORPlanner                                                               *)
(* ---------------------------------------------------------------------- *)
ORInit ==
    /\ or_cap \in CapTables
    /\ or_used = EmptyLedger
    /\ or_pc = "idle"
    /\ or_now = 0
    /\ or_n = 0
    /\ or_replan = 0
    /\ or_pending = <<>>
    /\ or_out = <<>>
    /\ or_base8 = 0
    /\ or_day_offset = 0
    /\ or_seen = <<>>
    /\ or_hist = <<>>
    /\ or_op = "init"
    /\ or_sched = <<>>

(* simulation times of the calls, in ticks: midnight, a time between 08:00
   and 09:00, and midnight of day 12 (a Saturday: the first slots are on
   day 13, the rolling horizon goes on into the third week) *)
ORTimes == {0, 8 * TicksPerHour + 1, 12 * 24 * TicksPerHour}

(* <<len(cases_to_plan), len(cases_to_replan)>> of a call: nothing to plan,
   one case, a day's worth, and more than the two-day horizon holds *)
PlanInputs == {<<0, MaxReplan>>, <<1, 0>>, <<60, 0>>, <<MaxPlan, MaxReplan>>}

(* plan, lines 70-81 *)
ORPlanBegin(now, n, r) ==
    /\ or_pc = "idle"
    /\ Len(or_hist) < MaxCalls
    /\ now >= or_now
    /\ or_now' = now
    /\ or_n' = n
    /\ or_replan' = r
    /\ or_pending' = [i \in 1..n |-> i]
    /\ or_out' = <<>>
    /\ or_base8' = next_8am_at_or_after(now + 24 * TicksPerHour)
    /\ or_seen' = <<>>
    /\ or_pc' = IF n = 0 THEN "return" ELSE "horizon"
    /\ or_op' = "plan"
    /\ UNCHANGED <<or_cap, or_used, or_day_offset, or_hist, or_sched>>
    /\ UNCHANGED <<sqVars, rlVars, faVars>>

(* plan, lines 83-139 *)
ORPlanHorizon ==
    /\ or_pc = "horizon"
    /\ \E st \in {Horizon(or_cap, or_used, or_base8, or_pending, or_out, or_replan)} :
           /\ or_pending' = st.pending
           /\ or_out' = st.out
           /\ or_used' = st.used
           /\ or_seen' = st.seen
    /\ or_day_offset' = 2
    /\ or_pc' = "rolling"
    /\ UNCHANGED <<or_cap, or_now, or_n, or_replan, or_base8, or_hist, or_op, or_sched>>
    /\ UNCHANGED <<sqVars, rlVars, faVars>>

(* plan, lines 140-164: one turn of the while loop *)
ORPlanRoll ==
    /\ or_pc = "rolling"
    /\ or_pending # <<>>
    /\ \E st \in {RollDay(or_cap, or_used, or_base8, or_day_offset, or_pending,
                          or_out, or_replan, or_seen)} :
           /\ or_pending' = st.pending
           /\ or_out' = st.out
           /\ or_used' = st.used
           /\ or_seen' = st.seen
    /\ or_day_offset' = or_day_offset + 1
    /\ UNCHANGED <<or_cap, or_pc, or_now, or_n, or_replan, or_base8, or_hist, or_op,
                   or_sched>>
    /\ UNCHANGED <<sqVars, rlVars, faVars>>

(* plan, lines 81 and 166: return out *)
ORPlanReturn ==
    /\ \/ or_pc = "return"
       \/ or_pc = "rolling" /\ or_pending = <<>>
    /\ or_pc' = "idle"
    /\ or_hist' = Append(or_hist, [now |-> or_now, n |-> or_n, replan |-> or_replan,
                                   used |-> or_used, out |-> or_out, seen |-> or_seen])
    /\ UNCHANGED <<or_cap, or_used, or_now, or_n, or_replan, or_pending, or_out,
                   or_base8, or_day_offset, or_seen, or_op, or_sched>>
    /\ UNCHANGED <<sqVars, rlVars, faVars>>

ORPlanCall == \E now \in ORTimes, in \in PlanInputs : ORPlanBegin(now, in[1], in[2])

(* schedule, line 176: the resources in the order of the morning emissions,
   and lines 182-186: in the order of the evening emissions *)
MorningOrder == <<"OR", "A_BED", "B_BED", "INTAKE", "ER_PRACTITIONER">>
EveningOrder == <<"INTAKE", "ER_PRACTITIONER", "A_BED", "B_BED", "OR">>

(* schedule, lines 169-188: the list returned at simulation time now (ticks);
   slot times are whole hours; near: the slot is less than a week ahead *)
ScheduleOut(cap, now) ==
    LET t         == now \div TicksPerHour          \* int(simulation_time)
        t_morning == t + 158
        t_evening == t + 168
        d         == dow_1_to_7(t_morning)
    IN  [i \in 1..5 |->
            [r |-> MorningOrder[i], t |-> t_morning, level |-> cap[d][MorningOrder[i]],
             near |-> t_morning * TicksPerHour - now < 168 * TicksPerHour]]
        \o
        [i \in 1..5 |->
            [r |-> EveningOrder[i], t |-> t_evening,
             level |-> IF EveningOrder[i] = "OR" THEN Max(4, cap[d]["OR"] - 1)
                       ELSE cap[d][EveningOrder[i]],
             near |-> t_evening * TicksPerHour - now < 168 * TicksPerHour]]

(* schedule, lines 168-188 *)
ORSchedule(now) ==
    /\ or_pc = "idle"
    /\ Len(or_sched) < 10 * MaxORSched
    /\ now >= or_now
    /\ or_now' = now
    /\ or_op' = "schedule"
    /\ or_sched' = or_sched \o ScheduleOut(or_cap, now)
    /\ UNCHANGED <<or_cap, or_used, or_pc, or_n, or_replan, or_pending, or_out,
                   or_base8, or_day_offset, or_seen, or_hist>>
    /\ UNCHANGED <<sqVars, rlVars, faVars>>

(* report, lines 45-46 *)
ORReport ==
    /\ or_pc = "idle"
    /\ or_op # "report"
    /\ or_op' = "report"
    /\ UNCHANGED <<or_cap, or_used, or_pc, or_now, or_n, or_replan, or_pending, or_out,
                   or_base8, or_day_offset, or_seen, or_hist, or_sched>>
    /\ UNCHANGED <<sqVars, rlVars, faVars>>

(* simulation times of schedule calls, in ticks: Saturday 00:00 of the first
   week, the half hour after it, 10 h and 10.5 h later, and a week later *)
ORScheduleCall ==
    \E now \in {120 * TicksPerHour, 120 * TicksPerHour + 1, 130 * TicksPerHour,
                130 * TicksPerHour + 1, 134 * TicksPerHour, 288 * TicksPerHour} :
        ORSchedule(now)

NextORSched == ORScheduleCall

(* plan, schedule and report calls on one planner: a day's worth of cases or
   more than two days hold, at midnight of day 0 or of day 12; schedule at
   midnight of day 12 *)
ORLedgerTimes == {0, 12 * 24 * TicksPerHour}
ORLedgerInputs == {<<60, 0>>, <<MaxPlan, MaxReplan>>}

ORLedgerPlanCall ==
    \E now \in ORLedgerTimes, in \in ORLedgerInputs : ORPlanBegin(now, in[1], in[2])

ORLedgerScheduleCall == ORSchedule(12 * 24 * TicksPerHour)

NextORCalls ==
    \/ ORLedgerPlanCall
    \/ ORPlanHorizon
    \/ ORPlanRoll
    \/ ORPlanReturn
    \/ ORLedgerScheduleCall
    \/ ORReport

NextOR ==
    \/ ORPlanCall
    \/ ORPlanHorizon
    \/ ORPlanRoll
    \/ ORPlanReturn

(* ---------------------------------------------------------------------- *)
(* _split_quota called on its own                                          *)
(* ---------------------------------------------------------------------- *)
SQIdle ==
    /\ sq_total = 0
    /\ sq_fractions = <<>>
    /\ sq_ints = <<>>
    /\ sq_pc = "done"

(* decimal shares, in hundredths *)
Shares == {0, 1, 7, 29, 33, 34, 43, 50, 57, 64, 71, 93, 99, 100}

(* ordered share vectors that sum to 1, and the planner's own *)
ShareVectors ==
    {wave_frac} \cup
    UNION {{f \in [1..n -> Shares] : SumSeq(f) = 100} : n \in 1..MaxWaves}

SQInit ==
    /\ sq_total \in 0..MaxTotal
    /\ sq_fractions \in ShareVectors
    /\ sq_ints = <<>>
    /\ sq_pc = "call"

SQSplit ==
    /\ sq_pc = "call"
    /\ sq_ints' = SplitQuota(sq_total, sq_fractions)
    /\ sq_pc' = "done"
    /\ UNCHANGED <<sq_total, sq_fractions>>
    /\ UNCHANGED <<orVars, rlVars, faVars>>

(* ---------------------------------------------------------------------- *)
(* RLSubmissionPlanner                                                     *)
(* ---------------------------------------------------------------------- *)
(* what report is handed: <<element, lifecycle_state, resource>>.  An
   element is "None" (no element) or the name of a process step; a resource
   is a ResourceType or "None". *)
ReportEvents ==
    {<<"Admission", "WAITING", "INTAKE">>, <<"Surgery", "ACTIVATE_TASK", "OR">>,
     <<"None", "REPLAN", "None">>, <<"Surgery", "OVERTIME", "OR">>}

(* the lifecycle states report looks for, lines 141-162 *)
RecognisedStates ==
    {"ACTIVATE_EVENT", "WAITING", "ACTIVATE_TASK", "START_TASK", "REPLAN",
     "RESCHEDULE", "OVERTIME", "PLANNED_STAFF_LT_1W", "PLANNED_STAFF_GE_1W"}

(* a lifecycle state report does not look for *)
UnknownState == "COMPLETE_TASK"

(* more of what report can be handed: a task started on the OR, a staffing
   cost, elements whose labels hold one of the words of line 140 among other
   characters, a wait at an element whose label holds none, and the unknown
   state with every kind of element and resource *)
AllReportEvents ==
    ReportEvents
    \cup {<<"Surgery", "START_TASK", "OR">>, <<"None", "PLANNED_STAFF_LT_1W", "OR">>}
    \cup {<<"Time_for_intake", "WAITING", "INTAKE">>,
          <<"Patient admission", "ACTIVATE_EVENT", "None">>,
          <<"Registered", "WAITING", "None">>, <<"Surgery", "WAITING", "OR">>}
    \cup {<<el, UnknownState, res>> : el \in {"None", "Admission", "Surgery"},
                                      res \in {"OR", "None"}}

(* line 139: (element.label if element else "").upper(), as the sequence
   of its characters.  The label of an element is its name; upper() puts
   the capital in the place of each small letter and keeps what else there
   is in a label *)
ElementLabel(element) ==
    LET label ==
            CASE element = "None" -> <<>>
              [] element = "Admission" -> <<"A", "d", "m", "i", "s", "s", "i", "o", "n">>
              [] element = "Surgery" -> <<"S", "u", "r", "g", "e", "r", "y">>
              [] element = "Time_for_intake" ->
                     <<"T", "i", "m", "e", "_", "f", "o", "r", "_", "i", "n", "t", "a", "k", "e">>
              [] element = "Patient admission" ->
                     <<"P", "a", "t", "i", "e", "n", "t", " ", "a", "d", "m", "i", "s", "s", "i", "o", "n">>
              [] element = "Registered" -> <<"R", "e", "g", "i", "s", "t", "e", "r", "e", "d">>
        small == <<"a", "b", "c", "d", "e", "f", "g", "h", "i", "j", "k", "l", "m",
                  "n", "o", "p", "q", "r", "s", "t", "u", "v", "w", "x", "y", "z">>
        capital == <<"A", "B", "C", "D", "E", "F", "G", "H", "I", "J", "K", "L", "M",
                    "N", "O", "P", "Q", "R", "S", "T", "U", "V", "W", "X", "Y", "Z">>
        upper(c) ==
            IF \E i \in 1..Len(small) : small[i] = c
            THEN capital[CHOOSE i \in 1..Len(small) : small[i] = c]
            ELSE c
    IN  Bind(label, LAMBDA l : Tuple([i \in 1..Len(l) |-> upper(l[i])]))

(* line 140: one of the three words is in the label, at any place *)
LabelHit(lbl) ==
    Bind(lbl, LAMBDA l :
        \E word \in {<<"A", "D", "M", "I", "S", "S", "I", "O", "N">>,
                     <<"I", "N", "T", "A", "K", "E">>,
                     <<"R", "E", "G", "I", "S", "T", "E", "R">>} :
            \E i \in 1..(Len(l) - Len(word) + 1) : SubSeq(l, i, i + Len(word) - 1) = word)

RECURSIVE DaySum(_, _)
(* the reward that the reports evs of a day make in exact arithmetic, in
   fifths, day[ev] counting the calls of report with ev since the last 18:00
   schedule.  One report adds -1.0 for a wait at admission, -0.2 for a task
   made ready, -1.0 for a replan, and three times the cost: 3.0 for an
   overtime, 2.0 or 1.0 for planned staff *)
DaySum(day, evs) ==
    IF evs = {} THEN 0
    ELSE Bind(CHOOSE e \in evs : TRUE, LAMBDA ev :
         LET EventReward ==
                 -(  (IF LabelHit(ElementLabel(ev[1])) /\ ev[2] \in {"ACTIVATE_EVENT", "WAITING"}
                      THEN 5 ELSE 0)
                   + (IF ev[2] = "ACTIVATE_TASK" THEN 1 ELSE 0)
                   + (IF ev[2] \in {"REPLAN", "RESCHEDULE"} THEN 5 ELSE 0)
                   + 3 * (CASE ev[2] = "OVERTIME" -> 15
                            [] ev[2] = "PLANNED_STAFF_LT_1W" -> 10
                            [] ev[2] = "PLANNED_STAFF_GE_1W" -> 5
                            [] OTHER -> 0))
         IN  day[ev] * EventReward + DaySum(day, evs \ {ev}))

NoReports == [ev \in AllReportEvents |-> 0]

(* an engine with no case to plan *)
NoBacklog == [backlog |-> <<>>, planned |-> [c \in {} |-> 0]]

RLInit ==
    /\ rl_epsilon \in {0, 10}   \* in hundredths: greedy, and the default of line 50
    /\ rl_Q = [k \in {} |-> QRow0]
    /\ rl_N = [k \in {} |-> NRow0]
    /\ rl_last_state = <<>>
    /\ rl_last_action = 0
    /\ rl_metrics = MetricsZero
    /\ rl_ready_or = 0
    /\ rl_last_level = 5
    /\ rl_scheduled = [k \in {} |-> 0]
    /\ rl_now = 0
    /\ rl_op = "init"
    /\ rl_in = <<0, 0>>
    /\ rl_before = [k \in {} |-> 0]
    /\ rl_out = <<>>
    /\ rl_choice = [s |-> <<>>, row |-> QRow0, a |-> 0, greedy |-> FALSE]
    /\ rl_log = <<>>
    /\ rl_day = NoReports
    /\ rl_applied = [k \in {} |-> <<>>]
    /\ rl_seeded = <<>>
    /\ rl_calls = 0
    /\ rl_reports = 0
    /\ rl_engine = NoBacklog

(* a planner nobody calls *)
RLIdle == RLInit /\ rl_epsilon = 10

(* the state whose row a test seeds: Wednesday, no backlog, no overtime *)
SeedState == <<2, 0, 0>>

(* a row in which action 4 strictly dominates: 0.0 against -1.0 *)
SeedRows ==
    {[a \in {2, 3, 4, 5} |-> IF a = 4 THEN FOfInt(0) ELSE FOfInt(-1)]}

(* planner.Q[SeedState] = row, set by hand on the fresh planner *)
RLSeed(row) ==
    /\ rl_op = "init"
    /\ rl_Q' = PutRow(rl_Q, SeedState, row)
    /\ rl_seeded' = row
    /\ rl_op' = "seed"
    /\ UNCHANGED <<rl_engine, rl_epsilon, rl_N, rl_last_state, rl_last_action, rl_metrics,
                   rl_ready_or, rl_last_level, rl_scheduled, rl_now, rl_out,
                   rl_choice, rl_log, rl_day, rl_applied, rl_calls, rl_reports,
                   rl_in, rl_before>>
    /\ UNCHANGED <<orVars, sqVars, faVars>>

(* simulation times of plan and schedule calls at large, in ticks: Wednesday
   07:00, a time between 08:00 and 09:00, 12:00, 18:00, a time between 18:00
   and 19:00, Saturday 18:00, and 18:00 of the second Wednesday *)
RLTimes == {55 * TicksPerHour, 56 * TicksPerHour + 1, 60 * TicksPerHour,
            66 * TicksPerHour, 66 * TicksPerHour + 1, 138 * TicksPerHour,
            234 * TicksPerHour}

(* plan, lines 65-78, for cases_to_plan = <<1, ..., n>> and cases_to_replan =
   <<n + 1, ..., n + r>> *)
RLPlan(now, n, r) ==
    /\ now >= rl_now
    /\ rl_now' = now
    /\ rl_in' = <<n, r>>
    /\ rl_out' = RLPlanOut(n, now)
    /\ rl_op' = "plan"
    /\ UNCHANGED <<rl_engine, rl_epsilon, rl_Q, rl_N, rl_last_state, rl_last_action, rl_metrics,
                   rl_ready_or, rl_last_level, rl_scheduled, rl_choice, rl_log,
                   rl_day, rl_applied, rl_seeded, rl_calls, rl_reports, rl_before>>
    /\ UNCHANGED <<orVars, sqVars, faVars>>

(* cases 1..n arrive at the engine before the first call; none arrive later *)
RLEngineArrive(n) ==
    /\ rl_op = "init"
    /\ rl_engine.backlog = <<>>
    /\ rl_engine' = [rl_engine EXCEPT !.backlog = [i \in 1..n |-> i]]
    /\ rl_op' = "arrive"
    /\ UNCHANGED <<rl_epsilon, rl_Q, rl_N, rl_last_state, rl_last_action, rl_metrics,
                   rl_ready_or, rl_last_level, rl_scheduled, rl_now, rl_in, rl_before,
                   rl_out, rl_choice, rl_log, rl_day, rl_applied, rl_seeded, rl_calls,
                   rl_reports>>
    /\ UNCHANGED <<orVars, sqVars, faVars>>

(* plan, lines 65-78, called by the engine with the cases not yet planned as
   cases_to_plan and nothing to replan; the cases returned leave the backlog *)
RLEnginePlan(now) ==
    /\ rl_engine.backlog # <<>>
    /\ now >= rl_now
    /\ LET to_plan == rl_engine.backlog
           out     == RLPlanOut(Len(to_plan), now)
           decided == [i \in 1..Len(out) |-> <<to_plan[out[i][1]], out[i][2]>>]
           cids    == {decided[i][1] : i \in 1..Len(decided)}
           timeOf(c) == decided[CHOOSE i \in 1..Len(decided) : decided[i][1] = c][2]
       IN  /\ rl_out' = decided
           /\ rl_in' = <<Len(to_plan), 0>>
           /\ rl_engine' =
                 [backlog |-> SelectSeq(to_plan, LAMBDA c : c \notin cids),
                  planned |-> [c \in DOMAIN rl_engine.planned \cup cids |->
                                 IF c \in cids THEN timeOf(c)
                                 ELSE rl_engine.planned[c]]]
    /\ rl_now' = now
    /\ rl_op' = "plan"
    /\ UNCHANGED <<rl_epsilon, rl_Q, rl_N, rl_last_state, rl_last_action, rl_metrics,
                   rl_ready_or, rl_last_level, rl_scheduled, rl_choice, rl_log,
                   rl_day, rl_applied, rl_seeded, rl_calls, rl_reports, rl_before>>
    /\ UNCHANGED <<orVars, sqVars, faVars>>

(* random.random() of line 103, in hundredths *)
RandomDraws == {9, 10}

(* random.choice([2, 3, 4, 5]) of line 104 *)
RandomPicks == {2, 3, 4, 5}

(* schedule, lines 81-82: not the 18th hour of a day *)
RLScheduleSkip(now) ==
    /\ now >= rl_now
    /\ HourOf(now) # 18
    /\ rl_now' = now
    /\ rl_out' = <<>>
    /\ rl_op' = "schedule"
    /\ rl_before' = rl_scheduled
    /\ UNCHANGED <<rl_engine, rl_epsilon, rl_Q, rl_N, rl_last_state, rl_last_action, rl_metrics,
                   rl_ready_or, rl_last_level, rl_scheduled, rl_choice, rl_log,
                   rl_day, rl_applied, rl_seeded, rl_calls, rl_reports, rl_in>>
    /\ UNCHANGED <<orVars, sqVars, faVars>>

(* lines 124 and 130 with the test left out *)
EmitAlways(scheduled, t, level) == TRUE

(* lines 124 and 130: the slot is not committed yet, or at another level *)
Emit(scheduled, t, level) == t \notin DOMAIN scheduled \/ scheduled[t] # level

(* lines 91-100: the tables after the update of the last (state, action)
   with the reward r of lines 92-95 *)
QAfterUpdate(r) ==
    IF rl_last_state # <<>> /\ rl_last_action # 0
    THEN LET n     == RowOf(rl_N, rl_last_state, NRow0)[rl_last_action] + 1
             q_old == RowOf(rl_Q, rl_last_state, QRow0)[rl_last_action]
         IN  PutRow(rl_Q, rl_last_state,
                    [RowOf(rl_Q, rl_last_state, QRow0) EXCEPT
                        ![rl_last_action] = QUpdate(q_old, r, n)])
    ELSE rl_Q

NAfterUpdate ==
    IF rl_last_state # <<>> /\ rl_last_action # 0
    THEN PutRow(rl_N, rl_last_state,
                [RowOf(rl_N, rl_last_state, NRow0) EXCEPT ![rl_last_action] = @ + 1])
    ELSE rl_N

(* schedule, lines 84-136, at the 18th hour; u is the draw of line 103 and
   pick the one of line 104 *)
RLSchedule(now, u, pick) ==
    /\ rl_calls < MaxSched
    /\ now >= rl_now
    /\ HourOf(now) = 18
    /\ (u < rl_epsilon \/ pick = 2)      \* line 104 is not run without explore
    /\ \E r \in {Reward(rl_metrics)} : \E Q1 \in {QAfterUpdate(r)} :
       LET s       == StateOf(now, rl_ready_or, rl_metrics)
           explore == u < rl_epsilon
           a       == IF explore THEN pick ELSE ArgMax(RowOf(Q1, s, QRow0))
           start_t == Max(now + 14 * TicksPerHour, next_day_0800(now, 1))
           chosen  == Min(5, Max(2, a))
           existing == IF start_t \in DOMAIN rl_scheduled THEN rl_scheduled[start_t]
                       ELSE rl_last_level
           near    == NearLevel(existing, rl_last_level, chosen)
           emit1   == Emit(rl_scheduled, start_t, near)
           sched1  == IF emit1 THEN PutRow(rl_scheduled, start_t, near) ELSE rl_scheduled
           week_ahead_t == start_t + 168 * TicksPerHour
           emit2   == Emit(sched1, week_ahead_t, chosen)
           out     == (IF emit1 THEN <<[t |-> start_t, level |-> near, near |-> TRUE]>>
                       ELSE <<>>)
                      \o (IF emit2 THEN <<[t |-> week_ahead_t, level |-> chosen,
                                           near |-> FALSE]>>
                          ELSE <<>>)
       IN  /\ rl_N' = NAfterUpdate
           /\ rl_Q' = IF explore THEN Q1 ELSE PutRow(Q1, s, RowOf(Q1, s, QRow0))
           /\ rl_applied' =
                 IF rl_last_state # <<>> /\ rl_last_action # 0
                 THEN PutRow(rl_applied, <<rl_last_state, rl_last_action>>,
                             Append(RowOf(rl_applied, <<rl_last_state, rl_last_action>>, <<>>),
                                    [r |-> r, fifths |-> DaySum(rl_day, {ev \in DOMAIN rl_day : rl_day[ev] > 0})]))
                 ELSE rl_applied
           /\ rl_choice' = [s |-> s, row |-> RowOf(Q1, s, QRow0), a |-> a,
                            greedy |-> ~explore]
           /\ rl_metrics' = MetricsReset(rl_metrics)
           /\ rl_day' = NoReports
           /\ rl_last_level' = near
           /\ rl_scheduled' = IF emit2 THEN PutRow(sched1, week_ahead_t, chosen) ELSE sched1
           /\ rl_out' = out
           /\ rl_log' = rl_log \o out
           /\ rl_last_state' = s
           /\ rl_last_action' = a
    /\ rl_now' = now
    /\ rl_op' = "schedule"
    /\ rl_calls' = rl_calls + 1
    /\ rl_before' = rl_scheduled
    /\ UNCHANGED <<rl_engine, rl_epsilon, rl_ready_or, rl_seeded, rl_reports, rl_in>>
    /\ UNCHANGED <<orVars, sqVars, faVars>>

(* report, lines 138-163 *)
RLReport(ev) ==
    /\ rl_reports < MaxReports
    /\ rl_metrics' = MetricsAfter(rl_metrics, LabelHit(ElementLabel(ev[1])), ev[2])
    /\ rl_ready_or' = ReadyAfter(rl_ready_or, ev[3] = "OR", ev[2])
    /\ rl_day' = [rl_day EXCEPT ![ev] = @ + 1]
    /\ rl_op' = "report"
    /\ rl_out' = <<>>
    /\ rl_reports' = rl_reports + 1
    /\ UNCHANGED <<rl_engine, rl_epsilon, rl_Q, rl_N, rl_last_state, rl_last_action,
                   rl_last_level, rl_scheduled, rl_now, rl_choice, rl_log,
                   rl_applied, rl_seeded, rl_calls, rl_in, rl_before>>
    /\ UNCHANGED <<orVars, sqVars, faVars>>

RLSeedCall == \E row \in SeedRows : RLSeed(row)
(* plan with len(cases_to_plan) = n and len(cases_to_replan) = r *)
RLPlanCall ==
    \E now \in RLTimes, n \in {0, 1, 4, 10}, r \in {0, 2} : RLPlan(now, n, r)
RLScheduleSkipCall == \E now \in RLTimes : RLScheduleSkip(now)
RLScheduleAnyCall ==
    \E now \in RLTimes, u \in RandomDraws, pick \in RandomPicks : RLSchedule(now, u, pick)
(* the daily 18:00 call on the Wednesday of the first week and of the second *)
RLScheduleCall ==
    \E now \in {66 * TicksPerHour, 234 * TicksPerHour}, u \in RandomDraws,
       pick \in RandomPicks :
        RLSchedule(now, u, pick)
RLReportCall == \E ev \in ReportEvents : RLReport(ev)
(* the reports of the operating room: a surgery made ready and an overtime *)
RLReportORCall ==
    \E ev \in {<<"Surgery", "ACTIVATE_TASK", "OR">>, <<"Surgery", "OVERTIME", "OR">>} :
        RLReport(ev)

(* the calls the engine makes with a simulation time *)
NextRLTimed ==
    \/ RLPlanCall
    \/ RLScheduleSkipCall
    \/ RLScheduleAnyCall

(* the calls that reach the Q-table *)
NextRL ==
    \/ RLSeedCall
    \/ RLScheduleCall
    \/ RLReportCall

(* the 18:00 calls of a planner seeded or not, with no report in between *)
NextRLEmit ==
    \/ RLSeedCall
    \/ RLScheduleCall

(* simulation times of schedule calls through a day, in ticks: Wednesday
   12:00, 18:00 and 19:00 *)
RLDayTimes == {60 * TicksPerHour, 66 * TicksPerHour, 67 * TicksPerHour}

RLScheduleDaySkipCall == \E now \in RLDayTimes : RLScheduleSkip(now)
RLScheduleDayCall ==
    \E now \in RLDayTimes, u \in RandomDraws, pick \in RandomPicks :
        RLSchedule(now, u, pick)

(* schedule called at any hour, with reports in between *)
NextRLDay ==
    \/ RLReportORCall
    \/ RLScheduleDaySkipCall
    \/ RLScheduleDayCall

(* the 18:00 call of every Wednesday: the first call in the first week, the
   next a week later *)
RLWeeklyScheduleCall ==
    \E u \in RandomDraws, pick \in RandomPicks :
        RLSchedule((66 + 168 * rl_calls) * TicksPerHour, u, pick)

(* a planner nobody seeds, learning week by week *)
NextRLLearn ==
    \/ RLWeeklyScheduleCall
    \/ RLReportORCall

(* the sizes of the backlog the engine starts with *)
RLEngineArriveCall == \E n \in {1, 7, MaxBacklog} : RLEngineArrive(n)
RLEnginePlanCall == \E now \in RLTimes : RLEnginePlan(now)

(* the engine offering a backlog to plan until none of it is left *)
NextRLEngine ==
    \/ RLEngineArriveCall
    \/ RLEnginePlanCall

(* the engine's reports between the daily schedule calls *)
NextRLReport ==
    \/ \E ev \in AllReportEvents : RLReport(ev)
    \/ RLSchedule(66 * TicksPerHour, 10, 2)   \* 18:00 of the first Wednesday, greedy

(* ---------------------------------------------------------------------- *)
(* GASA.py: run_ga, run_sa_seed and the planner that replays their result  *)
(* ---------------------------------------------------------------------- *)
(* case_ids, and one case more that no schedule holds *)
FACases == 1..NumCases
FAStranger == NumCases + 1

FAIdle ==
    /\ fa_pc = "start"
    /\ fa_ga = [c \in {} |-> 0]
    /\ fa_sa = [c \in {} |-> 0]
    /\ fa_scores = <<0, 0>>
    /\ fa_class = "none"
    /\ fa_now = 0
    /\ fa_to_plan = <<>>
    /\ fa_out = <<>>

(* draws of random.randint(0, 24*7), line 54 *)
GADraws == {0, 26, 24 * 7}

(* draws of random.uniform(100, 200), line 55, and of random.uniform(80, 150),
   line 62 *)
GAScores == {100, 125, 200}
SAScores == {80, 125, 150}

(* run_ga, lines 51-56 *)
FARunGA(sched, score) ==
    /\ fa_pc = "start"
    /\ fa_ga' = sched
    /\ fa_scores' = <<score, 0>>
    /\ fa_pc' = "ga"
    /\ UNCHANGED <<fa_sa, fa_class, fa_now, fa_to_plan, fa_out>>
    /\ UNCHANGED <<orVars, sqVars, rlVars>>

(* run_sa_seed, lines 58-63; delta holds the draws of random.randint(-2, 2) *)
FARunSA(delta, score) ==
    /\ fa_pc = "ga"
    /\ fa_sa' = [c \in DOMAIN fa_ga |-> fa_ga[c] + delta[c]]
    /\ fa_scores' = <<fa_scores[1], score>>
    /\ fa_pc' = "sa"
    /\ UNCHANGED <<fa_ga, fa_class, fa_now, fa_to_plan, fa_out>>
    /\ UNCHANGED <<orVars, sqVars, rlVars>>

(* FixedPlanner(adm_schedule), line 46, or OfflinePlanner(sa_best), line 88 *)
FALoad(class) ==
    /\ fa_pc = "sa"
    /\ fa_class' = class
    /\ fa_pc' = "loaded"
    /\ UNCHANGED <<fa_ga, fa_sa, fa_scores, fa_now, fa_to_plan, fa_out>>
    /\ UNCHANGED <<orVars, sqVars, rlVars>>

(* self.adm_schedule.get(cid, now + 24), in ticks *)
AdmTime(adm_schedule, cid, now) ==
    IF cid \in DOMAIN adm_schedule THEN adm_schedule[cid] * TicksPerHour
    ELSE now + 24 * TicksPerHour

(* simulation times of plan calls, in ticks *)
FATimes == {0, 1, 24 * TicksPerHour, 150 * TicksPerHour}

(* to_plan lists *)
FAToPlan == {<<>>, <<1>>, <<FAStranger>>, <<1, FAStranger>>, [i \in 1..NumCases |-> i]}

(* plan of either class, lines 35-38 and 70-72 *)
FAPlan(to_plan, now) ==
    /\ fa_pc \in {"loaded", "planned"}
    /\ now >= fa_now
    /\ fa_now' = now
    /\ fa_to_plan' = to_plan
    /\ fa_out' = [i \in 1..Len(to_plan) |-> <<to_plan[i], AdmTime(fa_sa, to_plan[i], now)>>]
    /\ fa_pc' = "planned"
    /\ UNCHANGED <<fa_ga, fa_sa, fa_scores, fa_class>>
    /\ UNCHANGED <<orVars, sqVars, rlVars>>

FARunGACall == \E sched \in [FACases -> GADraws], score \in GAScores : FARunGA(sched, score)
FARunSACall == \E delta \in [FACases -> -2..2], score \in SAScores : FARunSA(delta, score)
FALoadCall == \E class \in {"FixedPlanner", "OfflinePlanner"} : FALoad(class)
FAPlanCall == \E to_plan \in FAToPlan, now \in FATimes : FAPlan(to_plan, now)

NextFA ==
    \/ FARunGACall
    \/ FARunSACall
    \/ FALoadCall
    \/ FAPlanCall

(* ---------------------------------------------------------------------- *)
(* Specifications                                                          *)
(* ---------------------------------------------------------------------- *)
InitOR == ORInit /\ SQIdle /\ RLIdle /\ FAIdle

SpecOR == InitOR /\ [][NextOR]_vars

(* plan runs to its return once called: the engine waits for it *)
FairSpecOR == SpecOR /\ WF_vars(ORPlanHorizon \/ ORPlanRoll \/ ORPlanReturn)

(* an ORPlanner the engine calls plan, schedule and report on *)
SpecORCalls == InitOR /\ [][NextORCalls]_vars

(* an ORPlanner that is only asked for its capacity emissions *)
SpecORSched == InitOR /\ [][NextORSched]_vars

InitSplit == SQInit /\ ORInit /\ or_cap = WEEKLY_CAP /\ RLIdle /\ FAIdle

NextSplit == SQSplit

SpecSplit == InitSplit /\ [][NextSplit]_vars

InitRL == RLInit /\ ORInit /\ or_cap = WEEKLY_CAP /\ SQIdle /\ FAIdle

(* a planner that never explores *)
InitRLGreedy == InitRL /\ rl_epsilon = 0

SpecRLGreedy == InitRLGreedy /\ [][NextRL]_vars

SpecRLEmit == InitRL /\ [][NextRLEmit]_vars

SpecRLTimed == InitRL /\ [][NextRLTimed]_vars

SpecRLReport == InitRL /\ [][NextRLReport]_vars

SpecRLDay == InitRL /\ [][NextRLDay]_vars

SpecRLLearn == InitRL /\ [][NextRLLearn]_vars

(* the engine goes on calling plan while cases are left to plan *)
FairSpecRLEngine == InitRL /\ [][NextRLEngine]_vars /\ WF_vars(RLEnginePlanCall)

InitFA == FAIdle /\ ORInit /\ or_cap = WEEKLY_CAP /\ SQIdle /\ RLIdle

SpecFA == InitFA /\ [][NextFA]_vars

(* ---------------------------------------------------------------------- *)
(* Claims                                                                  *)
(* ---------------------------------------------------------------------- *)

(* C1: every timestamp returned by ORPlanner.plan is at least 24 h after the
   simulation time of the call, whole hour or not. *)
C1_PlanLeadTime ==
    \A i \in 1..Len(or_out) : or_out[i][2] * TicksPerHour >= or_now + 24 * TicksPerHour

(* C2: every timestamp RLSubmissionPlanner.plan returns, first slot or second,
   is at least 24 h after the simulation time of the call, and every time
   schedule returns, near-term or week-ahead, at least 14 h after it. *)
C2_RLLeadTimes ==
    /\ rl_op = "plan" =>
           \A i \in 1..Len(rl_out) : rl_out[i][2] >= rl_now + 24 * TicksPerHour
    /\ rl_op = "schedule" =>
           \A i \in 1..Len(rl_out) : rl_out[i].t >= rl_now + 14 * TicksPerHour

(* C2 witness: after a schedule call between 18:00 and 19:00 that emitted
   for a time 14 h later, a plan call on Saturday 18:00 has handed out the
   two places of its first slot and the one of its second, none of them on
   Sunday 08:00, which is 14 h away. *)
C2_Witness ==
    /\ rl_op = "plan"
    /\ rl_now = 138 * TicksPerHour
    /\ Len(rl_out) = 3
    /\ rl_out[1][2] = 176 * TicksPerHour
    /\ \E i \in 1..Len(rl_log) : rl_log[i].t = (66 + 14) * TicksPerHour + 1

(* C3: every timestamp returned by plan of FixedPlanner / OfflinePlanner,
   loaded with the assignment run_ga and then run_sa_seed made, is at least
   24 h after the simulation time of the call. *)
C3_FixedLeadTime ==
    fa_pc = "planned" =>
        \A i \in 1..Len(fa_out) : fa_out[i][2] >= fa_now + 24 * TicksPerHour

(* C4: the OR level schedule emits for a near-term slot is never below a
   level emitted before for the same slot, near-term or week-ahead, and
   never below a near-term level emitted before. *)
C4_NearTermMonotone ==
    \A j \in 1..Len(rl_log) : rl_log[j].near =>
        \A i \in 1..(j - 1) :
            (rl_log[i].t = rl_log[j].t \/ rl_log[i].near)
                => rl_log[j].level >= rl_log[i].level

(* C4 witness: a slot that got a lower level as a week-ahead anchor has been
   emitted again as a near-term slot. *)
C4_Witness ==
    \E i, j \in 1..Len(rl_log) :
        /\ i < j
        /\ rl_log[i].t = rl_log[j].t
        /\ ~rl_log[i].near
        /\ rl_log[j].near
        /\ rl_log[i].level < rl_log[j].level

(* C5: the sub-quotas of _split_quota sum to total, and none is further than
   1 from its share of total. *)
C5_SplitExact ==
    sq_pc = "done" =>
        /\ Len(sq_ints) = Len(sq_fractions)
        /\ SumSeq(sq_ints) = sq_total
        /\ \A i \in 1..Len(sq_ints) :
               /\ 100 * sq_ints[i] - sq_fractions[i] * sq_total <= 100
               /\ sq_fractions[i] * sq_total - 100 * sq_ints[i] <= 100

(* C5 witness: total 60 over the six waves, where 0.36 * 60 and 0.06 * 60
   leave the same remainder in exact arithmetic and the last wave wins the
   leftover unit in binary64. *)
C5_Witness ==
    /\ sq_pc = "done"
    /\ sq_fractions = wave_frac
    /\ sq_total = 60
    /\ sq_ints = <<21, 13, 10, 7, 5, 4>>

(* C6: a second plan call with the same to_plan and the same simulation time
   leaves every ledger bucket as the first call left it. *)
C6_LedgerIdempotent ==
    \A i \in 2..Len(or_hist) :
        (or_hist[i].now = or_hist[i - 1].now /\ or_hist[i].n = or_hist[i - 1].n)
            => or_hist[i].used = or_hist[i - 1].used

(* the first 08:00 that is at least 24 h after now (ticks), in hours *)
First8amOut(now) ==
    CHOOSE h \in 0..((now \div TicksPerHour) + 72) :
        /\ h % 24 = 8
        /\ h * TicksPerHour >= now + 24 * TicksPerHour
        /\ \A g \in 0..(h - 1) :
               ~(g % 24 = 8 /\ g * TicksPerHour >= now + 24 * TicksPerHour)

(* the slots of a call come in chronological order *)
SlotsChronological ==
    \A i, j \in 1..Len(or_seen) : i < j => or_seen[i].t < or_seen[j].t

(* a case sits in a slot only if every earlier slot of the call is full *)
EarlierSlotsFull ==
    \A i \in 1..Len(or_out) : \A j \in 1..Len(or_seen) :
        or_seen[j].t < or_out[i][2] =>
            UsedGet(or_used, or_seen[j].key) >= or_seen[j].subq

(* C7: in one plan call the slots are filled in chronological order, from
   the first 08:00 at least 24 h out on, and a case is put in a slot only
   if every earlier slot of the call is left without room. *)
C7_ChronologicalFill ==
    /\ SlotsChronological
    /\ EarlierSlotsFull
    /\ or_seen # <<>> => or_seen[1].t = First8amOut(or_now)

(* the ledger as the call found it *)
UsedBeforeCall ==
    IF or_pc = "idle"
    THEN (IF Len(or_hist) >= 2 THEN or_hist[Len(or_hist) - 1].used ELSE EmptyLedger)
    ELSE (IF Len(or_hist) >= 1 THEN or_hist[Len(or_hist)].used ELSE EmptyLedger)

PlanResultRight ==
    (or_pc = "idle" /\ or_hist # <<>>) =>
        /\ Len(or_out) = or_n
        /\ {or_out[i][1] : i \in 1..Len(or_out)} = 1..or_n
        /\ or_n = 0 => (or_out = <<>> /\ or_used = UsedBeforeCall)

(* C8: plan returns, with one pair for each case of to_plan and none for a
   case that is only in to_replan; an empty to_plan gives an empty list and
   leaves the ledger alone. *)
C8_PlanTerminates ==
    /\ [](or_pc # "idle" => <>(or_pc = "idle"))
    /\ []PlanResultRight

(* C8 witness: a call with MaxPlan cases and a non-empty to_replan that had
   to roll past the two-day horizon has returned. *)
C8_Witness ==
    /\ or_pc = "idle"
    /\ or_hist # <<>>
    /\ or_n = MaxPlan
    /\ or_replan > 0
    /\ or_day_offset > 2
    /\ Len(or_out) = MaxPlan

(* Exact arithmetic on sizes: |x| in units of 2^-64 as six digits to the
   base ChunkBase, the most significant first.  A reward and a mean of
   rewards are 0 or between 2^-64 and 2^26 in size, and whole numbers of
   the unit. *)
Limbs(x) ==
    IF x.m = <<>> THEN <<0, 0, 0, 0, 0, 0>>
    ELSE Bind(PadTo(x.m \o Zeros(x.e + 64), 6 * ChunkBits), LAMBDA b :
              [i \in 1..6 |-> BitsToInt(SubSeq(b, ChunkBits * (i - 1) + 1, ChunkBits * i))])

(* the whole number k, 0 <= k < 2^26, in the same units: k * 2^4 * 2^60 *)
IntLimbs(k) == <<(k * 16) \div ChunkBase, (k * 16) % ChunkBase, 0, 0, 0, 0>>

RECURSIVE Carried(_, _, _)
(* the digits of the number that v spells with digits of any size in the
   places 1..i and carry c from the places below *)
Carried(v, i, c) ==
    IF i = 0 THEN v
    ELSE Carried([v EXCEPT ![i] = (v[i] + c) % ChunkBase], i - 1,
                 (v[i] + c) \div ChunkBase)

LAdd(a, b) == Carried([i \in DOMAIN a |-> a[i] + b[i]], Len(a), 0)

(* a - b for a >= b *)
LSub(a, b) == Carried([i \in DOMAIN a |-> a[i] - b[i]], Len(a), 0)

(* k * a for 0 <= k < ChunkBase *)
LTimes(a, k) == Carried([i \in DOMAIN a |-> a[i] * k], Len(a), 0)

LLess(a, b) == \E i \in DOMAIN a : a[i] < b[i] /\ \A j \in 1..(i - 1) : a[j] = b[j]

(* |a - b| *)
LGap(a, b) == IF LLess(a, b) THEN LSub(b, a) ELSE LSub(a, b)

RECURSIVE SumLimbs(_)
(* the sum of |rewards[i].r| *)
SumLimbs(rewards) ==
    IF rewards = <<>> THEN IntLimbs(0)
    ELSE LAdd(Limbs(Head(rewards).r), SumLimbs(Tail(rewards)))

(* the rounding allowed to a Q-value: 2^-40 = 2^9 * 2^15 units *)
Slack == <<0, 0, 0, 0, 512, 0>>

(* every reward applied is the negated sum of what the reports since the
   18:00 schedule before added to the accumulators, up to rounding: no
   reward is positive and 5 |r| is within 5 * 2^-40 of the sum in fifths *)
RewardsAreTheDays ==
    \A k \in DOMAIN rl_applied : \A i \in 1..Len(rl_applied[k]) :
        LET x == rl_applied[k][i]
        IN  /\ x.fifths <= 0
            /\ x.r.m # <<>> => x.r.neg
            /\ LLess(LGap(LTimes(Limbs(x.r), 5), IntLimbs(-x.fifths)), LTimes(Slack, 5))

(* C9: on a planner nobody seeded, the Q-value of a (state, action) pair
   visited n >= 1 times is the arithmetic mean of the n rewards applied to
   it, within floating-point tolerance, each reward being
   -(admit_wait + in_hosp_wait + nerv + 3 x cost) of the reports since the
   18:00 schedule before: the Q-value is never positive, n times the
   Q-value is within n * 2^-40 of the sum of the rewards, and for n = 1
   the Q-value is the reward itself. *)
C9_QIsMean ==
    /\ RewardsAreTheDays
    /\ rl_seeded = <<>> =>
        \A s \in DOMAIN rl_N : \A a \in {2, 3, 4, 5} :
            rl_N[s][a] >= 1 =>
                LET rewards == RowOf(rl_applied, <<s, a>>, <<>>)
                IN  /\ Len(rewards) = rl_N[s][a]
                    /\ s \in DOMAIN rl_Q
                    /\ rl_Q[s][a].m # <<>> => rl_Q[s][a].neg
                    /\ LLess(LGap(LTimes(Limbs(rl_Q[s][a]), rl_N[s][a]), SumLimbs(rewards)),
                             LTimes(Slack, rl_N[s][a]))
                    /\ rl_N[s][a] = 1 =>
                           (~FLess(rl_Q[s][a], rewards[1].r) /\ ~FLess(rewards[1].r, rl_Q[s][a]))

(* C9 witness: a pair visited twice, with two different rewards, whose
   Q-value is the mean of the two rounded: twice the Q-value is not the sum
   of the two rewards. *)
C9_Witness ==
    /\ rl_seeded = <<>>
    /\ \E s \in DOMAIN rl_N : \E a \in {2, 3, 4, 5} :
           /\ rl_N[s][a] = 2
           /\ rl_applied[<<s, a>>][1].fifths # rl_applied[<<s, a>>][2].fifths
           /\ LTimes(Limbs(rl_Q[s][a]), 2) # SumLimbs(rl_applied[<<s, a>>])

(* the action chosen is the first of 2, 3, 4, 5 with the highest Q-value *)
GreedyChoice ==
    (rl_epsilon = 0 /\ rl_choice.a # 0) =>
        \A b \in {2, 3, 4, 5} :
            /\ ~FLess(rl_choice.row[rl_choice.a], rl_choice.row[b])
            /\ (b < rl_choice.a => FLess(rl_choice.row[b], rl_choice.row[rl_choice.a]))

(* C10 as claimed: with epsilon 0 the action is the first with the highest
   Q-value, and the state seeded with action 4 dominant yields action 4 at
   every visit. *)
C10_SeededAlwaysFour ==
    /\ GreedyChoice
    /\ (rl_epsilon = 0 /\ rl_seeded # <<>> /\ rl_choice.s = SeedState) => rl_choice.a = 4

(* C10, amended: with epsilon 0 the action is the first with the highest
   Q-value of the state after the update of the call, and the seeded state
   yields action 4 at every visit at which action 4 still strictly
   dominates its row then. *)
C10_GreedyArgmax ==
    /\ GreedyChoice
    /\ (/\ rl_epsilon = 0
        /\ rl_seeded # <<>>
        /\ rl_choice.s = SeedState
        /\ \A b \in {2, 3, 5} : FLess(rl_choice.row[b], rl_choice.row[4]))
           => rl_choice.a = 4

(* C10 witness: the seeded state visited again after the update of its
   action 4, which still dominates, and action 4 chosen again. *)
C10_Witness ==
    /\ rl_epsilon = 0
    /\ rl_seeded # <<>>
    /\ rl_calls >= 2
    /\ rl_choice.s = SeedState
    /\ rl_choice.a = 4
    /\ SeedState \in DOMAIN rl_N
    /\ rl_N[SeedState][4] >= 1

(* C11: in every run of run_ga followed by run_sa_seed, the fitness
   reported for the simulated-annealing output is at most the fitness
   reported for the genetic-algorithm seed it started from. *)
C11_SARefinesSeed ==
    fa_pc \in {"sa", "loaded", "planned"} => fa_scores[2] <= fa_scores[1]

(* min(14 x intake, 6 x ER, bed_A + bed_B) of weekday d *)
RawBase(cap, d) ==
    Min(Min(14 * cap[d]["INTAKE"], 6 * cap[d]["ER_PRACTITIONER"]),
        cap[d]["A_BED"] + cap[d]["B_BED"])

(* C12: for every capacity table and backlog, the quota plan uses for a day
   is clamp(floor, ceiling, base + backlog_boost), with base = min(14 x
   intake, 6 x ER, bed_A + bed_B) of the weekday and backlog_boost =
   min(base div 2, backlog div 6); floor and ceiling are the ones the call
   applied to the day. *)
C12_QuotaFormula ==
    \A i \in 1..Len(or_seen) :
        LET s     == or_seen[i]
            base  == RawBase(or_cap, s.key[2])
            boost == Min(base \div 2, s.day.backlog \div 6)
        IN  s.day.quota = Min(s.day.cap_max, Max(s.day.floor, base + boost))

(* the capacity of the first slot of the latest plan call: line 72 *)
FirstSlotCap == IF is_weekend(rl_now) THEN 2 ELSE 6

(* C13: in RLSubmissionPlanner.plan, at every simulation time, the second
   admission slot (the one the cases beyond the first slot's capacity get)
   is exactly 24 h later than the first. *)
C13_SecondSlotNextDay ==
    rl_op = "plan" =>
        \A i \in 1..Len(rl_out) :
            i > FirstSlotCap => rl_out[i][2] = rl_out[1][2] + 24 * TicksPerHour

(* the cases the latest plan call returned with admission time t *)
AssignedTo(t) == {i \in 1..Len(rl_out) : rl_out[i][2] = t}

(* a plan call returns the first cases of to_plan, each once, as many as the
   two capacities allow, and none of to_replan *)
PlanCasesRight ==
    rl_op = "plan" =>
        /\ Len(rl_out) = Min(rl_in[1], FirstSlotCap + FirstSlotCap \div 2)
        /\ \A i \in 1..Len(rl_out) : rl_out[i][1] = i

(* C14: one plan call assigns at most 6 cases (weekday) or 2 (weekend) to
   the first slot and at most 3, respectively 1, to the second; every
   further case of to_plan is left out, each returned case appears once and
   no case of to_replan is returned. *)
C14_SlotCapacities ==
    /\ PlanCasesRight
    /\ (rl_op = "plan" /\ rl_out # <<>>) =>
           /\ Cardinality(AssignedTo(rl_out[1][2])) <= FirstSlotCap
           /\ \A i \in 1..Len(rl_out) :
                  rl_out[i][2] # rl_out[1][2] =>
                      Cardinality(AssignedTo(rl_out[i][2])) <= FirstSlotCap \div 2

(* C15: whatever the capacity table, over schedule calls at non-decreasing
   times an emission of ORPlanner.schedule for a (resource, slot) less than
   168 h ahead of its call is never lower than an earlier emission for the
   same (resource, slot). *)
C15_ORNearTermMonotone ==
    \A j \in 1..Len(or_sched) : or_sched[j].near =>
        \A i \in 1..(j - 1) :
            (or_sched[i].r = or_sched[j].r /\ or_sched[i].t = or_sched[j].t)
                => or_sched[j].level >= or_sched[i].level

(* C16: a report with a lifecycle state outside the recognised set leaves
   the metric accumulators, the overtime flag and ready_or as they were,
   whatever the element (none included) and the resource; and no report
   changes Q, N, last_level or the commitment map. *)
C16_ReportFrame ==
    [][rl_reports' # rl_reports =>
          /\ UNCHANGED <<rl_Q, rl_N, rl_last_level, rl_scheduled>>
          /\ \A ev \in DOMAIN rl_day :
                 (rl_day'[ev] # rl_day[ev] /\ ev[2] \notin RecognisedStates)
                     => UNCHANGED <<rl_metrics, rl_ready_or>>]_vars

(* C16 witness: after an 18:00 schedule call and the report of a task made
   ready on the OR, a report with the unknown state, no element and the OR
   as resource has returned. *)
C16_Witness ==
    /\ rl_op = "report"
    /\ rl_day[<<"None", UnknownState, "OR">>] = 1
    /\ rl_day[<<"Surgery", "ACTIVATE_TASK", "OR">>] = 1
    /\ rl_metrics.in_hosp_wait = FOfDecimal(20)
    /\ rl_ready_or = 1
    /\ rl_calls = 1
    /\ rl_Q # <<>>

(* the ledger key of the slot at hour t *)
KeyOf(t) == <<t \div 168, dow_1_to_7(t), t % 24>>

RECURSIVE ReturnedAt(_, _)
(* the decisions for the slot of key that the first n plan calls returned *)
ReturnedAt(key, n) ==
    IF n = 0 THEN 0
    ELSE Cardinality({j \in 1..Len(or_hist[n].out) : KeyOf(or_hist[n].out[j][2]) = key})
         + ReturnedAt(key, n - 1)

(* between calls, each ledger entry is the number of decisions returned so
   far for its slot, and every decision returned has its entry *)
LedgerCountsDecisions ==
    or_pc = "idle" =>
        /\ \A key \in DOMAIN or_used : or_used[key] = ReturnedAt(key, Len(or_hist))
        /\ \A i \in 1..Len(or_hist) : \A j \in 1..Len(or_hist[i].out) :
               KeyOf(or_hist[i].out[j][2]) \in DOMAIN or_used

(* C17: the ledger of an ORPlanner is changed by plan only, never by
   schedule or report; no entry ever decreases; and after every call each
   (week, weekday, hour) entry is the number of decisions returned so far
   for that slot. *)
C17_LedgerByPlanOnly ==
    /\ [][/\ or_used' # or_used =>
                (or_op = "plan" /\ or_pc \in {"horizon", "rolling"} /\ or_sched' = or_sched)
          /\ \A key \in DOMAIN or_used :
                 key \in DOMAIN or_used' /\ or_used'[key] >= or_used[key]]_vars
    /\ []LedgerCountsDecisions

(* C17 witness: two plan calls with a schedule and a report call after
   them; the second plan call added to a bucket the first had filled in. *)
C17_Witness ==
    /\ or_pc = "idle"
    /\ or_op = "report"
    /\ or_sched # <<>>
    /\ Len(or_hist) = 2
    /\ \E key \in DOMAIN or_hist[1].used :
           /\ or_hist[1].used[key] > 0
           /\ or_used[key] > or_hist[1].used[key]

(* the largest sub-quota any plan call so far has computed for the slot *)
LargestSubQuota(key) ==
    LET SubsOf(seen) == {seen[j].subq : j \in {x \in 1..Len(seen) : seen[x].key = key}}
        subs == UNION {SubsOf(or_hist[i].seen) : i \in 1..Len(or_hist)}
                \cup SubsOf(or_seen)
    IN  IF subs = {} THEN 0 ELSE CHOOSE m \in subs : \A y \in subs : y <= m

(* C18: over any sequence of plan calls the room computed for a slot is
   never negative, and the cases assigned to one slot never exceed the
   largest sub-quota computed for it in any of the calls, nor 26. *)
C18_NoDoubleBooking ==
    /\ \A i \in 1..Len(or_seen) : or_seen[i].cap >= 0
    /\ \A key \in DOMAIN or_used :
           /\ or_used[key] <= LargestSubQuota(key)
           /\ or_used[key] <= 26

(* C18 witness: a later plan call found a slot with no room left, and a
   first wave holds the 26 cases of a day quota of 72. *)
C18_Witness ==
    /\ Len(or_hist) >= 1
    /\ \E i \in 1..Len(or_seen) : or_seen[i].subq > 0 /\ or_seen[i].cap = 0
    /\ \E key \in DOMAIN or_used : or_used[key] = 26

(* C19: the band of a calendar day's quota is floor 56 and ceiling 72
   exactly when the day is one of the first 14 simulated days; on a later day
   the floor is 50 and the ceiling 64, or 72 when the backlog is above 150.
   So for both days of the two-day lookahead and for every later day. *)
C19_WarmBandByDay ==
    \A i \in 1..Len(or_seen) :
        LET s    == or_seen[i]
            warm == (s.t \div 24) < 14
        IN  /\ s.day.floor = IF warm THEN 56 ELSE 50
            /\ s.day.cap_max = IF warm \/ s.day.backlog > 150 THEN 72 ELSE 64

(* C20: RLSubmissionPlanner.schedule never returns a level for an OR slot
   that is the level an earlier call has left committed for that slot, and
   no slot twice in one call. *)
C20_NoRedundantEmission ==
    rl_op = "schedule" =>
        /\ \A i \in 1..Len(rl_out) :
               rl_out[i].t \in DOMAIN rl_before => rl_before[rl_out[i].t] # rl_out[i].level
        /\ \A i, j \in 1..Len(rl_out) : i # j => rl_out[i].t # rl_out[j].t

(* C20 witness: an 18:00 call found both of its slots committed; it left
   the near-term one alone, its level being the committed one, and emitted
   the week-ahead one at a level other than the committed one. *)
C20_Witness ==
    /\ rl_op = "schedule"
    /\ HourOf(rl_now) = 18
    /\ Len(rl_out) = 1
    /\ ~rl_out[1].near
    /\ rl_out[1].t \in DOMAIN rl_before
    /\ rl_out[1].t - 168 * TicksPerHour \in DOMAIN rl_before
    /\ rl_scheduled[rl_out[1].t - 168 * TicksPerHour]
           = rl_before[rl_out[1].t - 168 * TicksPerHour]

(* C21: a schedule call at a time whose hour of the day is not 18 returns
   the empty list and leaves Q, N, the metric accumulators, the overtime
   flag, last_state, last_action, last_level and the commitment map as they
   were; after a call at hour 18 the four accumulators and the overtime flag
   are zero. *)
C21_ScheduleOffHourFrame ==
    /\ [][(rl_op' = "schedule" /\ HourOf(rl_now') # 18) =>
             /\ rl_out' = <<>>
             /\ UNCHANGED <<rl_Q, rl_N, rl_metrics, rl_last_state, rl_last_action,
                            rl_last_level, rl_scheduled>>]_vars
    /\ []((rl_op = "schedule" /\ HourOf(rl_now) = 18) =>
             /\ rl_metrics.admit_wait = FOfInt(0)
             /\ rl_metrics.in_hosp_wait = FOfInt(0)
             /\ rl_metrics.nerv = FOfInt(0)
             /\ rl_metrics.cost = FOfInt(0)
             /\ rl_metrics.overtime = 0)

(* C21 witness: a schedule call at 19:00 has returned, after an 18:00 call
   that chose an action and committed slots and after a report of overtime
   that the 19:00 call found in the accumulators. *)
C21_Witness ==
    /\ rl_op = "schedule"
    /\ HourOf(rl_now) = 19
    /\ rl_out = <<>>
    /\ rl_calls = 1
    /\ rl_last_state # <<>>
    /\ rl_last_action # 0
    /\ DOMAIN rl_scheduled # {}
    /\ rl_metrics.overtime = 1
    /\ rl_metrics.cost = FOfInt(3)

(* the waves of ints that stand one above their truncated share trunc *)
Raised(ints, trunc) == {i \in 1..Len(ints) : ints[i] = trunc[i] + 1}

(* ints is trunc with one unit more on exactly leftover waves, those of the
   largest remainders rem, an earlier wave before a later one of the same
   remainder; less(a, b) orders two remainders *)
LargestRemainders(ints, trunc, rem, leftover, less(_, _)) ==
    /\ Len(ints) = Len(trunc)
    /\ \A i \in 1..Len(ints) : ints[i] \in {trunc[i], trunc[i] + 1}
    /\ Cardinality(Raised(ints, trunc)) = Max(0, leftover)
    /\ \A i \in Raised(ints, trunc) : \A j \in (1..Len(ints)) \ Raised(ints, trunc) :
           less(rem[j], rem[i]) \/ (rem[j] = rem[i] /\ i < j)

(* the shares of total in hundredths: fractions[i] * total *)
Hundredths(total, fractions) ==
    [i \in 1..Len(fractions) |-> fractions[i] * total]

(* C22: in _split_quota each wave first gets the truncated value of
   fraction x total, and the waves that get one unit more are exactly the
   (total - sum of the truncated shares) waves with the largest fractional
   remainders, an earlier wave winning over a later one with an equal
   remainder; no other wave is changed. *)
C22_LargestRemainderSplit ==
    sq_pc = "done" =>
        LET h     == Hundredths(sq_total, sq_fractions)
            trunc == [i \in 1..Len(h) |-> h[i] \div 100]
            rem   == [i \in 1..Len(h) |-> h[i] % 100]
        IN  LargestRemainders(sq_ints, trunc, rem, sq_total - SumSeq(trunc),
                              LAMBDA a, b : a < b)

(* what _split_quota does with the products and remainders as binary64
   computes them: the same rule over raw[i] and raw[i] - ints[i] *)
SplitByComputedRemainders ==
    sq_pc = "done" =>
        LET raw   == SplitRaw(sq_total, sq_fractions)
            trunc == [i \in 1..Len(raw) |-> FInt(raw[i])]
            rem   == [i \in 1..Len(raw) |-> FFrac(raw[i])]
        IN  LargestRemainders(sq_ints, trunc, rem, sq_total - SumSeq(trunc), BitsLess)

(* the near-term slot of a schedule call at now: tomorrow 08:00 *)
NearSlot(now) == Max(now + 14 * TicksPerHour, next_day_0800(now, 1))

(* C23: after every hour-18 schedule call, whatever action of 2..5 was
   selected and whatever the Q-table holds, the near-term slot (tomorrow
   08:00) is committed at 5 and last_level is 5; the week-ahead slot is
   committed at the selected action, which lies in 2..5.  Every emission for
   a near-term slot carries 5, every week-ahead emission a level in 2..5. *)
C23_NearTermAlwaysFive ==
    /\ rl_last_level = 5
    /\ (rl_op = "schedule" /\ HourOf(rl_now) = 18) =>
           /\ rl_choice.a \in 2..5
           /\ NearSlot(rl_now) \in DOMAIN rl_scheduled
           /\ rl_scheduled[NearSlot(rl_now)] = 5
           /\ (NearSlot(rl_now) + 168 * TicksPerHour) \in DOMAIN rl_scheduled
           /\ rl_scheduled[NearSlot(rl_now) + 168 * TicksPerHour] = rl_choice.a
    /\ \A i \in 1..Len(rl_log) :
           IF rl_log[i].near THEN rl_log[i].level = 5 ELSE rl_log[i].level \in 2..5

(* C23 witness: the 18:00 call of the second Wednesday selected action 2 and
   found its near-term slot committed at 2, as the week-ahead anchor of the
   call a week before; the slot now stands at 5 and the new week-ahead slot
   at 2. *)
C23_Witness ==
    /\ rl_op = "schedule"
    /\ rl_now = 234 * TicksPerHour
    /\ rl_choice.a = 2
    /\ NearSlot(rl_now) \in DOMAIN rl_before
    /\ rl_before[NearSlot(rl_now)] = 2
    /\ rl_scheduled[NearSlot(rl_now)] = 5
    /\ rl_scheduled[NearSlot(rl_now) + 168 * TicksPerHour] = 2
    /\ rl_Q # <<>>

(* C24: every plan call with a non-empty to_plan returns at least one
   decision, so with the engine offering the cases not yet planned again on
   each later call and no new case arriving, every case of the backlog is in
   the end returned with an admission time. *)
C24_BacklogDrains ==
    /\ [](rl_op = "plan" /\ rl_in[1] > 0 => Len(rl_out) >= 1)
    /\ \A c \in 1..(MaxBacklog + 1) :
           (\E i \in 1..Len(rl_engine.backlog) : rl_engine.backlog[i] = c)
               ~> (c \in DOMAIN rl_engine.planned)

(* C24 witness: a backlog of MaxBacklog cases is planned to the last case,
   the last call having been offered what earlier calls, one of them on a
   weekend, left over. *)
C24_Witness ==
    /\ rl_op = "plan"
    /\ rl_engine.backlog = <<>>
    /\ DOMAIN rl_engine.planned = 1..MaxBacklog
    /\ rl_in[1] < MaxBacklog - 9
    /\ Len(rl_out) = rl_in[1]
    /\ rl_out[Len(rl_out)][1] = MaxBacklog

====
